---------------------------- MODULE Spec2Model ----------------------------
(***************************************************************************)
(* Itinerary planner (src/app.py): a table of places keyed by day, with    *)
(* append, delete-with-renumber and adjacent-swap reordering, and the map  *)
(* composed from one day's ordered places.                                 *)
(*                                                                         *)
(* Text is modelled as sequences of one-character strings so that          *)
(* str.strip() is computed.  Coordinates are integers in units of 1e-4     *)
(* degree; a mean is kept as the exact fraction [num, den].                *)
(***************************************************************************)
EXTENDS Integers, Sequences, FiniteSets

VARIABLES
    places,   \* rows of table places: records id, day, ord, name, lat, lng, memo
    seq,      \* sqlite_sequence of places: the largest id ever assigned
    exit,     \* where the last handler run left: "start", "error", "success",
              \* "deleted", "move_none", "move_boundary", "move_done"
    shown,    \* the day of the map last built
    m,        \* the map last built
    sess      \* per session: position and locals of a mutation in flight

vars == <<places, seq, exit, shown, m, sess>>

-----------------------------------------------------------------------------
(* Bounds *)

NumDays == 2     \* days modelled, of the 13 the selectbox offers
MaxId == 3       \* rows inserted in one behaviour

Days == 1..NumDays
Ids == 1..(MaxId + 1)          \* ids a caller may pass: assigned or not
Sessions == {"s1", "s2"}
Directions == {"up", "down"}

-----------------------------------------------------------------------------
(* Text *)

\* the whitespace str.strip() removes, among the characters modelled
Whitespace == {" ", "\t", "\n", "\r"}

RECURSIVE lstrip(_)
lstrip(s) ==
    IF s # <<>> /\ Head(s) \in Whitespace THEN lstrip(Tail(s)) ELSE s

RECURSIVE rstrip(_)
rstrip(s) ==
    IF s # <<>> /\ s[Len(s)] \in Whitespace
    THEN rstrip(SubSeq(s, 1, Len(s) - 1))
    ELSE s

\* str.strip() without arguments
strip(s) == rstrip(lstrip(s))

\* the values the add_place_form widgets can hold at submit
Forms ==
    { [name |-> <<"Z", "o", "o">>, lat |-> 371000, lng |-> 1271000,
       memo |-> <<>>],
      [name |-> <<" ", "B", "a", "r", " ">>, lat |-> 372000, lng |-> 1272000,
       memo |-> <<" ", "9", "h", "\n">>],
      [name |-> <<>>, lat |-> 375665, lng |-> 1269780, memo |-> <<"x">>],
      [name |-> <<" ", "\t">>, lat |-> 371000, lng |-> 1272000,
       memo |-> <<>>] }

-----------------------------------------------------------------------------
(* Store *)

Max(S) == CHOOSE x \in S : \A y \in S : y <= x

DayPlaces(P, day) == {p \in P : p.day = day}

\* the sequences a SELECT ... ORDER BY ord ASC may return for the rows S:
\* every arrangement of S with ord non-decreasing (equal ords in any order)
OrderedBy_ord(S) ==
    LET n == Cardinality(S)
    IN  {r \in [1..n -> S] :
            /\ \A i, j \in 1..n : i # j => r[i] # r[j]
            /\ \A i \in 1..n : i < n => r[i].ord <= r[i + 1].ord}

fetch_places(P, day) == OrderedBy_ord(DayPlaces(P, day))

\* variant: MAX(ord) without WHERE day=?
next_ord_any_day(P, day) == Max({p.ord : p \in P} \cup {0}) + 1

next_ord(P, day) == Max({p.ord : p \in DayPlaces(P, day)} \cup {0}) + 1

\* variant: INTEGER PRIMARY KEY without AUTOINCREMENT, one more than the
\* largest id now stored
RowidMaxPlusOne(P, sq) == Max({p.id : p \in P} \cup {0}) + 1

\* INTEGER PRIMARY KEY AUTOINCREMENT: one more than the largest id ever used
NewId(P, sq) == sq + 1

\* the INSERT of add_place; memo or ""
InsertRow(P, sq, day, o, name, lat, lng, memo) ==
    P \cup {[id |-> NewId(P, sq), day |-> day, ord |-> o, name |-> name,
             lat |-> lat, lng |-> lng,
             memo |-> IF memo = <<>> THEN <<>> ELSE memo]}

\* DELETE FROM places WHERE id=?
DeleteRow(P, place_id) == {p \in P : p.id # place_id}

\* for i, pid in enumerate(ids, start=1): UPDATE places SET ord=i WHERE id=pid
\* (ids holds no id twice; a pid with no row updates nothing)
UpdateOrds(P, ids) ==
    {IF \E i \in 1..Len(ids) : ids[i] = p.id
     THEN [p EXCEPT !.ord = CHOOSE i \in 1..Len(ids) : ids[i] = p.id]
     ELSE p : p \in P}

RowIds(rows) == [i \in 1..Len(rows) |-> rows[i].id]

\* variant: ORDER BY id
RenumberRowsById(P, day) ==
    LET S == DayPlaces(P, day)
        n == Cardinality(S)
    IN  {r \in [1..n -> S] :
            /\ \A i, j \in 1..n : i # j => r[i] # r[j]
            /\ \A i \in 1..n : i < n => r[i].id <= r[i + 1].id}

\* the rows delete_place renumbers: SELECT id ... WHERE day=? ORDER BY ord ASC
RenumberRows(P, day) == fetch_places(P, day)

\* delete_place(place_id, day): the stores it may leave
delete_place(P, place_id, day) ==
    LET D == DeleteRow(P, place_id)
    IN  {UpdateOrds(D, RowIds(rows)) : rows \in RenumberRows(D, day)}

\* position of place_id in ids, counted from 1; 0 stands for None
IndexOf(ids, place_id) ==
    IF \E i \in 1..Len(ids) : ids[i] = place_id
    THEN CHOOSE i \in 1..Len(ids) :
            ids[i] = place_id /\ \A j \in 1..(i - 1) : ids[j] # place_id
    ELSE 0

Swap(ids, i, j) == [ids EXCEPT ![i] = ids[j], ![j] = ids[i]]

\* what move_place decides: where it leaves and the ids it renumbers
Plan(e, ids) == [exit |-> e, ids |-> ids]

\* variant: "up" without the idx > 0 test, where rows[idx-1] is rows[-1]
SwappedWrapping(ids, idx, direction) ==
    IF direction = "up"
    THEN Plan("move_done", Swap(ids, idx, IF idx > 1 THEN idx - 1 ELSE Len(ids)))
    ELSE IF direction = "down" /\ idx < Len(ids)
    THEN Plan("move_done", Swap(ids, idx, idx + 1))
    ELSE Plan("move_boundary", <<>>)

\* variant: "up" swaps the wrong neighbour
SwappedWrongNeighbour(ids, idx, direction) ==
    IF direction = "up" /\ idx > 1
    THEN Plan("move_done", Swap(ids, idx, IF idx > 2 THEN idx - 2 ELSE idx - 1))
    ELSE IF direction = "down" /\ idx < Len(ids)
    THEN Plan("move_done", Swap(ids, idx, idx + 1))
    ELSE Plan("move_boundary", <<>>)

\* lines 71-76 for a found idx (counted from 1 here, from 0 in the code)
Swapped(ids, idx, direction) ==
    IF direction = "up" /\ idx > 1
    THEN Plan("move_done", Swap(ids, idx, idx - 1))
    ELSE IF direction = "down" /\ idx < Len(ids)
    THEN Plan("move_done", Swap(ids, idx, idx + 1))
    ELSE Plan("move_boundary", <<>>)

\* lines 68-76 on the rows read
MovePlan(rows, place_id, direction) ==
    LET ids == RowIds(rows)
        idx == IndexOf(ids, place_id)
    IN  IF idx = 0 THEN Plan("move_none", <<>>) ELSE Swapped(ids, idx, direction)

\* move_place(day, place_id, direction): the stores it may leave, each with
\* the place it left at
move_place(P, day, place_id, direction) ==
    {LET plan == MovePlan(rows, place_id, direction)
     IN  [places |-> IF plan.exit = "move_done" THEN UpdateOrds(P, plan.ids)
                     ELSE P,
          exit |-> plan.exit]
     : rows \in fetch_places(P, day)}

\* add_place(day, name, lat, lng, memo): the store it leaves
add_place(P, sq, day, name, lat, lng, memo) ==
    InsertRow(P, sq, day, next_ord(P, day), name, lat, lng, memo)

-----------------------------------------------------------------------------
(* Map *)

DefaultLat == 375665      \* 37.5665
DefaultLng == 1269780     \* 126.9780

RECURSIVE Sum(_)
Sum(s) == IF s = <<>> THEN 0 ELSE Head(s) + Sum(Tail(s))

\* variant: origin and destination exchanged
gmaps_transit_link_reversed(origin_lat, origin_lng, dest_lat, dest_lng) ==
    << "https://www.google.com/maps/dir/?api=1",
       "&origin=", dest_lat, ",", dest_lng,
       "&destination=", origin_lat, ",", origin_lng,
       "&travelmode=transit" >>

\* the URL as its literal pieces and the formatted coordinates between them
gmaps_transit_link(origin_lat, origin_lng, dest_lat, dest_lng) ==
    << "https://www.google.com/maps/dir/?api=1",
       "&origin=", origin_lat, ",", origin_lng,
       "&destination=", dest_lat, ",", dest_lng,
       "&travelmode=transit" >>

\* f"{ord_}. {name}"
Label(r) == <<r.ord, ". ", r.name>>

\* one folium.Marker of build_map
Marker(r) ==
    [location |-> <<r.lat, r.lng>>,
     tooltip |-> Label(r),
     popup |-> IF r.memo # <<>> THEN <<Label(r), "<br/>", r.memo>>
               ELSE <<Label(r)>>,
     icon |-> r.ord]

\* the clickable segment i of build_map, i counted from 1
Segment(coords, i) ==
    [line |-> <<coords[i], coords[i + 1]>>,
     tooltip |-> <<i, i + 1>>,
     link |-> gmaps_transit_link(coords[i][1], coords[i][2],
                                 coords[i + 1][1], coords[i + 1][2])]

\* for i in range(len(coords) - 1)
Segments(coords) == [i \in 1..(Len(coords) - 1) |-> Segment(coords, i)]

\* build_map(day, places) for the rows fetch_places returned
build_map(day, rows) ==
    LET n == Len(rows)
        coords == [i \in 1..n |-> <<rows[i].lat, rows[i].lng>>]
    IN  [location |->
            IF n > 0
            THEN << [num |-> Sum([i \in 1..n |-> rows[i].lat]), den |-> n],
                    [num |-> Sum([i \in 1..n |-> rows[i].lng]), den |-> n] >>
            ELSE << [num |-> DefaultLat, den |-> 1],
                    [num |-> DefaultLng, den |-> 1] >>,
         zoom_start |-> IF n > 0 THEN 13 ELSE 12,
         markers |-> [i \in 1..n |-> Marker(rows[i])],
         route |-> IF n >= 2 THEN <<coords>> ELSE <<>>,
         segments |-> IF n >= 2 THEN Segments(coords) ELSE <<>>]

-----------------------------------------------------------------------------
(* One script run per user action *)

Idle == [pc |-> "idle", day |-> 0, ord |-> 0, ids |-> <<>>,
         name |-> <<>>, lat |-> 0, lng |-> 0, memo |-> <<>>]

\* variant: not name
IsBlankUnstripped(name) == name = <<>>

\* not name.strip()
IsBlank(name) == strip(name) = <<>>

\* the add_place_form submit handler: the store, sequence and exit it leaves
submit(P, sq, day, f) ==
    IF IsBlank(f.name)
    THEN [places |-> P, seq |-> sq, exit |-> "error"]
    ELSE [places |-> add_place(P, sq, day, strip(f.name), f.lat, f.lng,
                               strip(f.memo)),
          seq |-> NewId(P, sq),
          exit |-> "success"]

Init ==
    /\ places = {}
    /\ seq = 0
    /\ exit = "start"
    /\ shown = 1
    /\ m = build_map(1, <<>>)
    /\ sess = [s \in Sessions |-> Idle]

Submit(day, f) ==
    /\ IsBlank(f.name) \/ seq < MaxId
    /\ LET r == submit(places, seq, day, f)
       IN  /\ places' = r.places
           /\ seq' = r.seq
           /\ exit' = r.exit
    /\ UNCHANGED <<shown, m, sess>>

Delete(place_id, day) ==
    /\ places' \in delete_place(places, place_id, day)
    /\ exit' = "deleted"
    /\ UNCHANGED <<seq, shown, m, sess>>

Move(day, place_id, direction) ==
    /\ \E r \in move_place(places, day, place_id, direction) :
          /\ places' = r.places
          /\ exit' = r.exit
    /\ UNCHANGED <<seq, shown, m, sess>>

Next ==
    \/ \E day \in Days, f \in Forms : Submit(day, f)
    \/ \E day \in Days, place_id \in Ids : Delete(place_id, day)
    \/ \E day \in Days, place_id \in Ids, direction \in Directions :
          Move(day, place_id, direction)

\* the handlers, called in sequence with any arguments
Spec == Init /\ [][Next]_vars

-----------------------------------------------------------------------------
(* The map of a day, composed over a store left by earlier runs *)

\* the store after the forms fs[1..k] were submitted for the days ds[1..k]
RECURSIVE Submitted(_, _, _)
Submitted(ds, fs, k) ==
    IF k = 0
    THEN [places |-> {}, seq |-> 0, exit |-> "start"]
    ELSE LET r == Submitted(ds, fs, k - 1)
         IN  submit(r.places, r.seq, ds[k], fs[k])

\* the script starts over the rows the database file holds (init_db creates
\* the table only if it is missing) and shows day 1
InitMap ==
    /\ \E k \in 0..MaxId : \E ds \in [1..k -> Days], fs \in [1..k -> Forms] :
          LET r == Submitted(ds, fs, k)
          IN  /\ r.seq = k
              /\ places = r.places
              /\ seq = r.seq
    /\ exit = "start"
    /\ shown = 1
    /\ \E rows \in fetch_places(places, 1) : m = build_map(1, rows)
    /\ sess = [s \in Sessions |-> Idle]

\* a script run for the selected day: fetch_places, then build_map
View(day) ==
    /\ shown' = day
    /\ \E rows \in fetch_places(places, day) : m' = build_map(day, rows)
    /\ UNCHANGED <<places, seq, exit, sess>>

NextMap == \E day \in Days : View(day)

SpecMap == InitMap /\ [][NextMap]_vars

-----------------------------------------------------------------------------
(* Two sessions on one database file *)
(*                                                                         *)
(* Every function opens its own connection.  With the sqlite3 module's     *)
(* implicit transactions a SELECT runs outside any transaction and the     *)
(* first INSERT, UPDATE or DELETE of a "with conn" block begins the one    *)
(* that the block commits.  So one step is: the SELECT of next_ord; the    *)
(* INSERT of add_place; the whole of delete_place; the SELECT of           *)
(* move_place; the UPDATEs of move_place.  Write transactions exclude one  *)
(* another, and a reader sees committed rows only.  A writer that waits    *)
(* for the lock longer than the timeout raises; that is not modelled.      *)
(* A session deletes and moves the ids its list of the day showed: ids of  *)
(* that day, or ids deleted since.                                         *)
(***************************************************************************)

Pending == Cardinality({s \in Sessions : sess[s].pc = "add_insert"})

FromListOf(place_id, day) ==
    \A p \in places : p.id = place_id => p.day = day

\* o = next_ord(day), in add_place called from the submit handler
AddRead(s, day, f) ==
    /\ sess[s].pc = "idle"
    /\ ~IsBlank(f.name)
    /\ seq + Pending < MaxId
    /\ sess' = [sess EXCEPT ![s] =
                   [pc |-> "add_insert", day |-> day,
                    ord |-> next_ord(places, day), ids |-> <<>>,
                    name |-> strip(f.name), lat |-> f.lat, lng |-> f.lng,
                    memo |-> strip(f.memo)]]
    /\ UNCHANGED <<places, seq, exit, shown, m>>

\* the INSERT of add_place, with the o read before
AddInsert(s) ==
    /\ sess[s].pc = "add_insert"
    /\ places' = InsertRow(places, seq, sess[s].day, sess[s].ord,
                           sess[s].name, sess[s].lat, sess[s].lng,
                           sess[s].memo)
    /\ seq' = NewId(places, seq)
    /\ sess' = [sess EXCEPT ![s] = Idle]
    /\ UNCHANGED <<exit, shown, m>>

\* delete_place: DELETE, SELECT and UPDATEs in one transaction
DeleteTxn(s, place_id, day) ==
    /\ sess[s].pc = "idle"
    /\ FromListOf(place_id, day)
    /\ places' \in delete_place(places, place_id, day)
    /\ UNCHANGED <<seq, exit, shown, m, sess>>

\* move_place to its first UPDATE: the SELECT, idx and the swap
MoveRead(s, day, place_id, direction) ==
    /\ sess[s].pc = "idle"
    /\ FromListOf(place_id, day)
    /\ \E rows \in fetch_places(places, day) :
          LET plan == MovePlan(rows, place_id, direction)
          IN  sess' = [sess EXCEPT ![s] =
                          IF plan.exit = "move_done"
                          THEN [Idle EXCEPT !.pc = "move_write",
                                            !.day = day, !.ids = plan.ids]
                          ELSE Idle]
    /\ UNCHANGED <<places, seq, exit, shown, m>>

\* the UPDATEs of move_place, committed together
MoveWrite(s) ==
    /\ sess[s].pc = "move_write"
    /\ places' = UpdateOrds(places, sess[s].ids)
    /\ sess' = [sess EXCEPT ![s] = Idle]
    /\ UNCHANGED <<seq, exit, shown, m>>

NextConc ==
    \E s \in Sessions :
        \/ \E day \in Days, f \in Forms : AddRead(s, day, f)
        \/ AddInsert(s)
        \/ \E day \in Days, place_id \in Ids : DeleteTxn(s, place_id, day)
        \/ \E day \in Days, place_id \in Ids, direction \in Directions :
              MoveRead(s, day, place_id, direction)
        \/ MoveWrite(s)

SpecConc == Init /\ [][NextConc]_vars

-----------------------------------------------------------------------------
(* Properties of the handlers called in sequence *)

IdsOf(P) == {p.id : p \in P}

Orders(P, day) == {p.ord : p \in DayPlaces(P, day)}

Count(P, day) == Cardinality(DayPlaces(P, day))

\* rows are numbered 1..Len(rows) in the order given
NumberedInOrder(rows) == \A k \in 1..Len(rows) : rows[k].ord = k

\* C1: after every call, for every day the order values of the day's places
\* are exactly 1..N, N the number of places stored for the day.
C1_OrdersContiguous ==
    \A day \in Days : Orders(places, day) = 1..Count(places, day)

\* C2: delete and move called with an id that is not the id of a place of
\* the day they are called for leave the stored places of every day as they
\* were.
C2_ForeignIdIsNoOp ==
    [][\A day \in Days, place_id \in Ids :
          (/\ place_id \notin IdsOf(DayPlaces(places, day))
           /\ \/ Delete(place_id, day)
              \/ \E direction \in Directions : Move(day, place_id, direction))
          => places' = places]_vars

\* the sequence ids with positions i and j exchanged, written out
Exchanged(ids, i, j) ==
    [k \in 1..Len(ids) |->
        IF k = i THEN ids[j] ELSE IF k = j THEN ids[i] ELSE ids[k]]

\* C3: for the ordered list p1..pN of a day, move up of pi with i > 1
\* exchanges pi and p(i-1), move down of pi with i < N exchanges pi and
\* p(i+1); every other place keeps its position and the orders are 1..N in
\* the new positions.
C3_MoveExchangesNeighbours ==
    \A day \in Days : \A rows \in fetch_places(places, day) :
        \A i \in 1..Len(rows) :
            LET ids == RowIds(rows)
                After(direction, j) ==
                    \A r \in move_place(places, day, ids[i], direction) :
                        \A rows2 \in fetch_places(r.places, day) :
                            /\ RowIds(rows2) = Exchanged(ids, i, j)
                            /\ NumberedInOrder(rows2)
            IN  /\ i > 1 => After("up", i - 1)
                /\ i < Len(rows) => After("down", i + 1)

C3_Witness ==
    /\ exit = "move_done"
    /\ \E day \in Days : \E rows \in fetch_places(places, day) :
          RowIds(rows) = <<1, 3, 2>> /\ NumberedInOrder(rows)

\* C4: move up on the first place of a day's list and move down on its last
\* place leave the stored places unchanged, so repeating them does too.
C4_BoundaryMoveIsNoOp ==
    \A day \in Days : \A rows \in fetch_places(places, day) :
        Len(rows) > 0 =>
            /\ \A r \in move_place(places, day, rows[1].id, "up") :
                  r.places = places
            /\ \A r \in move_place(places, day, rows[Len(rows)].id, "down") :
                  r.places = places

C4_Witness ==
    /\ exit = "move_boundary"
    /\ \E day \in Days : Count(places, day) >= 2

\* the sequence ids without its position i
Without(ids, i) ==
    [k \in 1..(Len(ids) - 1) |-> IF k < i THEN ids[k] ELSE ids[k + 1]]

\* C5: after delete of a place of the day, the day's list holds the other
\* ids in the order they had, numbered 1..N-1, and not the deleted id.
C5_DeleteKeepsRelativeOrder ==
    \A day \in Days : \A rows \in fetch_places(places, day) :
        \A i \in 1..Len(rows) :
            \A P2 \in delete_place(places, rows[i].id, day) :
                \A rows2 \in fetch_places(P2, day) :
                    /\ RowIds(rows2) = Without(RowIds(rows), i)
                    /\ NumberedInOrder(rows2)

C5_Witness ==
    /\ exit = "deleted"
    /\ seq = 3
    /\ \E day \in Days : \E rows \in fetch_places(places, day) :
          RowIds(rows) = <<3, 1>> /\ NumberedInOrder(rows)

\* C6: add with a valid name stores one new place with an id no stored
\* place has, with order one more than the largest order of the day (1 for
\* an empty day), last in the day's list; every place stored before is
\* stored unchanged.
C6_AddAppends ==
    \A day \in Days, f \in Forms :
        (\E i \in 1..Len(f.name) : f.name[i] \notin Whitespace) =>
            LET r == submit(places, seq, day, f)
                new == r.places \ places
            IN  /\ Cardinality(new) = 1
                /\ places \subseteq r.places
                /\ \A q \in new :
                      /\ q.id \notin IdsOf(places)
                      /\ q.day = day
                      /\ \A o \in Orders(places, day) : q.ord > o
                      /\ q.ord = 1 \/ q.ord - 1 \in Orders(places, day)
                      /\ \A rows2 \in fetch_places(r.places, day) :
                            rows2[Len(rows2)] = q

C6_Witness ==
    /\ exit = "success"
    /\ Count(places, 1) = 2
    /\ Count(places, 2) = 1
    /\ \E p \in DayPlaces(places, 1) : p.id = 3 /\ p.ord = 2

\* C7: add with a name that holds nothing but whitespace reports an error
\* and stores nothing: the store and the id sequence are as before.
C7_BlankNameRejected ==
    \A day \in Days, f \in Forms :
        (\A i \in 1..Len(f.name) : f.name[i] \in Whitespace) =>
            submit(places, seq, day, f) =
                [places |-> places, seq |-> seq, exit |-> "error"]

C7_Witness ==
    /\ exit = "error"
    /\ places # {}

SameFields(p, q) ==
    /\ p.id = q.id
    /\ p.day = q.day
    /\ p.name = q.name
    /\ p.lat = q.lat
    /\ p.lng = q.lng
    /\ p.memo = q.memo

\* C10: a stored place keeps its id, day, name, lat, lng and memo in every
\* step; an id that appears in a step is larger than every id assigned
\* before, so no id is used again; no two stored places share an id.
C10_FieldsImmutable ==
    /\ [][/\ \A p \in places, q \in places' : p.id = q.id => SameFields(p, q)
          /\ \A q \in places' : q.id \notin IdsOf(places) => q.id > seq
          /\ seq' >= seq]_vars
    /\ [](\A p, q \in places : p.id = q.id => p = q)
    /\ [](\A p \in places : p.id <= seq)

C10_Witness ==
    /\ exit = "success"
    /\ IdsOf(places) = {3}

-----------------------------------------------------------------------------
(* Properties of the map *)

\* C8: for the N places of the day shown, the map holds N markers, one
\* full route line exactly when N >= 2, and max(N-1, 0) segments; segment i
\* links from the coordinates of place i to those of place i+1 with
\* travelmode=transit; for no places the map is centred on the fallback
\* coordinate and holds no marker, line or segment.
C8_RouteComposer ==
    \A rows \in fetch_places(places, shown) :
        LET n == Len(rows)
        IN  /\ Len(m.markers) = n
            /\ \A i \in 1..n : m.markers[i].location = <<rows[i].lat, rows[i].lng>>
            /\ Len(m.route) = IF n >= 2 THEN 1 ELSE 0
            /\ Len(m.segments) = IF n >= 1 THEN n - 1 ELSE 0
            /\ \A i \in 1..(n - 1) :
                  m.segments[i].link =
                      << "https://www.google.com/maps/dir/?api=1",
                         "&origin=", rows[i].lat, ",", rows[i].lng,
                         "&destination=", rows[i + 1].lat, ",", rows[i + 1].lng,
                         "&travelmode=transit" >>
            /\ n = 0 =>
                  m.location = << [num |-> 375665, den |-> 1],
                                  [num |-> 1269780, den |-> 1] >>

C8_Witness ==
    /\ shown = 2
    /\ Count(places, 2) = 3
    /\ Len(m.segments) = 2
    /\ m.segments[1].link[3] # m.segments[1].link[7]

-----------------------------------------------------------------------------
(* Properties of concurrent sessions *)

\* C9: whenever no mutation is in flight, every day's order values are
\* exactly 1..N: no interleaving of two sessions' mutations ends with
\* duplicate or missing order values.
C9_InterleavingsKeepOrders ==
    (\A s \in Sessions : sess[s].pc = "idle") =>
        \A day \in Days :
            /\ Orders(places, day) = 1..Count(places, day)

=============================================================================
